---- MODULE Spec2Model ----
(***************************************************************************)
(* Model of orchestrate_intent.py: the orchestrator main(), the stage      *)
(* runner run_entrypoint(), the ledger reader read_jsonl_file() and the    *)
(* plan selector select_best_plan().                                       *)
(*                                                                         *)
(* Numbers in plan records are exact integers in tenths (0.9 is 9), so     *)
(* p_success - entropy is exact, as it is in Python for integer-valued     *)
(* JSON numbers; binary floating-point rounding is not modelled.           *)
(***************************************************************************)
EXTENDS Integers, Sequences, FiniteSets

VARIABLES
    pc,            \* position of main(): a label of the line it is about to run
    sys_argv,      \* sys.argv, program name first
    intent_file,   \* the file named by argv[2]: [exists, data]
    plans_file,    \* <ledger_dir>/plans.jsonl: [exists, lines]
    ledger_dir,    \* main's local ledger_dir
    intent_json_file, \* main's local intent_json_file
    repo_path,     \* main's local repo_path
    intent_id,     \* main's local intent_id
    best_plan,     \* main's local best_plan
    proc,          \* the subprocess in progress: [script] or none
    invoked,       \* every command line handed to subprocess.run, in order
    result,        \* the CompletedProcess of the last finished subprocess
    returned,      \* what the last call of run_entrypoint returned to main
    printed,       \* what the orchestrator wrote to its standard output
    reads,         \* the files the orchestrator opened for reading, in order
    history,       \* stage invocations, stage exits and selections, in order
    ledger_made,   \* the ledger directory exists
    error,         \* the exception that ended the run, "" when none
    exit_code,     \* exit status of the process, -1 while it is running
    read_result    \* what a call of read_jsonl_file on its own returned or raised

vars == <<pc, sys_argv, intent_file, plans_file, ledger_dir, intent_json_file,
          repo_path, intent_id, best_plan, proc, invoked, result, returned,
          printed, reads, history, ledger_made, error, exit_code, read_result>>

----------------------------------------------------------------------------
(* Bounds *)

\* longest plans store (in lines) of the orchestration runs
MaxPlans == 2
\* longest plans store (in lines) handed to the selector on its own
MaxLen == 3
\* most positional arguments on the command line
MaxArgs == 4
\* longest plans store (in lines) of the runs checked for termination
MaxFairPlans == 1

----------------------------------------------------------------------------
(* Values *)

NoValue == ""
Program == "orchestrate_intent.py"
ArgPool == <<"ledger", "intent.json", "repo", "extra4", "extra5", "extra6">>
PlanIdPool == <<"p1", "p2", "p3", "p4", "p5", "p6">>
Intents == {"i1", "i2"}
Fields == {"intent_id", "plan_id", "p_success", "entropy"}

\* a JSON object: a function from the keys it has to their values
EmptyDict == [k \in {} |-> NoValue]
Has(d, k) == k \in DOMAIN d
Restrict(d, D) == [k \in D |-> d[k]]

\* a line of text of the plans store
RecordLine(d) == [kind |-> "record", value |-> d]
BlankLine == [kind |-> "blank", value |-> EmptyDict]
InvalidLine == [kind |-> "invalid", value |-> EmptyDict]
\* a line of spaces and tabs only
WhitespaceLine == [kind |-> "whitespace", value |-> EmptyDict]

\* a line that is JSON but no object (42, [1], null): what json.loads returns for
\* it is no dict; no plan record has the key this value is told apart by
NonObject == [json |-> "not an object"]
NonObjectLine == [kind |-> "nonobject", value |-> NonObject]
IsObject(p) == p # NonObject

\* the number values of plan records: tenths, so 9 stands for 0.9
SelectPVals == {7, 8, 9}
SelectEVals == {1, 3}
RunPVals == {8, 9}
RunEVals == {1}

\* well-formed plan records, their plan_id still to be given
PlanShapes(PVals, EVals) ==
    [intent_id : Intents, plan_id : {NoValue}, p_success : PVals, entropy : EVals]

\* the lines a store can hold: of a selector input ("select": well-formed records
\* only), of a reader input ("read": well-formed records, empty lines and lines of
\* white space) or of the store of a run ("run": records with any of their fields
\* left out, blank lines, lines that are no JSON and lines that are no JSON object)
LineShapes(use) ==
    IF use = "select"
    THEN {RecordLine(d) : d \in PlanShapes(SelectPVals, SelectEVals)}
    ELSE IF use = "read"
    THEN {RecordLine(d) : d \in PlanShapes(RunPVals, RunEVals)}
         \cup {BlankLine, WhitespaceLine}
    ELSE {RecordLine(Restrict(d, D)) : d \in PlanShapes(RunPVals, RunEVals),
                                       D \in SUBSET Fields}
         \cup {BlankLine, InvalidLine, NonObjectLine}

\* a planner gives the record it writes as line k the plan_id PlanIdPool[k], so
\* plan ids are unique in a store
Stamp(l, k) ==
    IF l.kind = "record" /\ Has(l.value, "plan_id")
    THEN RecordLine([l.value EXCEPT !["plan_id"] = PlanIdPool[k]])
    ELSE l

RunLines == LineShapes("run")
SelectLines == LineShapes("select")
ReadLines == LineShapes("read")

MissingFile == [exists |-> FALSE, lines |-> <<>>]

\* the store whose line k is the line f[k], given its plan_id
StoreOf(f) == [exists |-> TRUE, lines |-> [k \in DOMAIN f |-> Stamp(f[k], k)]]

\* file is the missing store or a store of at most n lines drawn from Shapes
IsFile(file, n, Shapes) ==
    \/ file = MissingFile
    \/ \E m \in 0..n : \E f \in [1..m -> Shapes] : file = StoreOf(f)

----------------------------------------------------------------------------
(* read_jsonl_file *)

Ok(v) == [ok |-> TRUE, value |-> v, error |-> NoValue]
Raise(e) == [ok |-> FALSE, value |-> NoValue, error |-> e]

\* mutant: only the empty line is skipped
NonBlankUnstripped(line) == line.kind # "blank"

\* line.strip() is truthy: the line is not empty and not white space only
NonBlank(line) == line.kind \notin {"blank", "whitespace"}

\* mutant: a line that is no JSON is taken for an empty record, so it is skipped
ParseableAlways(line) == TRUE

\* json.loads(line) succeeds
Parseable(line) == line.kind \in {"record", "nonobject"}

RECURSIVE NonBlankLines(_)
\* [... for line in f if line.strip()]
NonBlankLines(lines) ==
    IF lines = <<>> THEN <<>>
    ELSE IF NonBlank(Head(lines)) THEN <<Head(lines)>> \o NonBlankLines(Tail(lines))
    ELSE NonBlankLines(Tail(lines))

\* mutant: the store is opened without the existence check of lines 29-30
read_jsonl_file_unchecked(file) ==
    IF ~file.exists THEN Raise("FileNotFoundError")
    ELSE LET kept == NonBlankLines(file.lines)
         IN IF \E i \in 1..Len(kept) : ~Parseable(kept[i])
            THEN Raise("JSONDecodeError")
            ELSE Ok([i \in 1..Len(kept) |-> kept[i].value])

\* lines 27-32
read_jsonl_file(file) ==
    IF ~file.exists THEN Ok(<<>>)
    ELSE LET kept == NonBlankLines(file.lines)
         IN IF \E i \in 1..Len(kept) : ~Parseable(kept[i])
            THEN Raise("JSONDecodeError")
            ELSE Ok([i \in 1..Len(kept) |-> kept[i].value])

----------------------------------------------------------------------------
(* select_best_plan *)

\* mutant: any record with an intent_id passes the filter
MatchesIntentAny(p, target) == Has(p, "intent_id")

\* p.get('intent_id') == intent_id
MatchesIntent(p, target) == Has(p, "intent_id") /\ p["intent_id"] = target

RECURSIVE FilterIntent(_, _)
FilterIntent(plans, target) ==
    IF plans = <<>> THEN <<>>
    ELSE IF MatchesIntent(Head(plans), target)
         THEN <<Head(plans)>> \o FilterIntent(Tail(plans), target)
         ELSE FilterIntent(Tail(plans), target)

\* mutant: the key adds entropy
scoreSum(p) == p["p_success"] + p["entropy"]

\* the key of max(): lambda p: p['p_success'] - p['entropy']
HasKey(p) == Has(p, "p_success") /\ Has(p, "entropy")
score(p) == p["p_success"] - p["entropy"]

\* mutant: a later item of equal key replaces the running maximum
ReplacesOnTie(val, maxval) == val >= maxval

\* a later item replaces the running maximum only when its key is greater
Replaces(val, maxval) == val > maxval

RECURSIVE MaxLoop(_, _, _)
MaxLoop(items, i, maxidx) ==
    IF i > Len(items) THEN maxidx
    ELSE IF Replaces(score(items[i]), score(items[maxidx]))
         THEN MaxLoop(items, i + 1, i)
         ELSE MaxLoop(items, i + 1, maxidx)

\* max(intent_plans, key=...): index of the item max() returns
MaxIndex(items) == MaxLoop(items, 2, 1)

\* mutant: max() runs over all plans, not over the intent's
SelectFromUnfiltered(plans, target) ==
    LET intent_plans == FilterIntent(plans, target)
    IN IF intent_plans = <<>> THEN Raise("ValueError")
       ELSE IF \E i \in 1..Len(plans) : ~HasKey(plans[i])
            THEN Raise("KeyError")
            ELSE LET bestp == plans[MaxIndex(plans)]
                 IN IF Has(bestp, "plan_id") THEN Ok(bestp["plan_id"])
                    ELSE Raise("KeyError")

\* lines 38-45: filter (p.get raises AttributeError on a value that is no dict),
\* the empty check, max() and the plan_id of the best plan
SelectFrom(plans, target) ==
    LET intent_plans == FilterIntent(plans, target)
    IN IF \E i \in 1..Len(plans) : ~IsObject(plans[i]) THEN Raise("AttributeError")
       ELSE IF intent_plans = <<>> THEN Raise("ValueError")
       ELSE IF \E i \in 1..Len(intent_plans) : ~HasKey(intent_plans[i])
            THEN Raise("KeyError")
            ELSE LET bestp == intent_plans[MaxIndex(intent_plans)]
                 IN IF Has(bestp, "plan_id") THEN Ok(bestp["plan_id"])
                    ELSE Raise("KeyError")

\* mutant: only the newest record of the store is a candidate
select_best_plan_newest(file, target) ==
    LET plans == read_jsonl_file(file)
    IN IF ~plans.ok THEN plans
       ELSE SelectFrom(IF plans.value = <<>> THEN <<>>
                       ELSE <<plans.value[Len(plans.value)]>>, target)

\* lines 35-45
select_best_plan(file, target) ==
    LET plans == read_jsonl_file(file)
    IN IF ~plans.ok THEN plans ELSE SelectFrom(plans.value, target)

----------------------------------------------------------------------------
(* The environment: command lines, intent files, stage outcomes *)

\* sys.argv with n positional arguments
Argv(n) == <<Program>> \o SubSeq(ArgPool, 1, n)

\* the intent file: missing, or a JSON object with or without intent_id
IntentFiles ==
    {[exists |-> FALSE, data |-> EmptyDict], [exists |-> TRUE, data |-> EmptyDict]}
    \cup {[exists |-> TRUE, data |-> [intent_id |-> i]] : i \in Intents}

\* a run gets past its input checks
InputsGood(argv, file) == Len(argv) = 4 /\ file.exists /\ Has(file.data, "intent_id")

ReturnCodes == {0, 1, 2}

\* what a stage writes to its standard output and standard error: opaque texts,
\* told apart by stream and by stage
StdoutOf(script) == <<"stdout", script>>
StderrOf(script) == <<"stderr", script>>

NoText == <<>>
NoProc == [script |-> NoValue, args |-> <<>>]
NoResult == [args |-> <<>>, returncode |-> 0, stdout |-> NoText, stderr |-> NoText]

\* the events of history
Invoked(script) == [event |-> "invoke", script |-> script, code |-> 0, plan |-> NoValue]
Exited(script, rc) == [event |-> "exit", script |-> script, code |-> rc, plan |-> NoValue]
Selected(sel) ==
    [event |-> "select", script |-> NoValue, code |-> IF sel.ok THEN 0 ELSE 1,
     plan |-> IF sel.ok THEN sel.value ELSE NoValue]

Message(kind, detail) == [kind |-> kind, detail |-> detail]

----------------------------------------------------------------------------
(* Initial states *)

\* the start of a run beside a store of at most n lines
InitWith(n) ==
    /\ pc = "main"
    /\ sys_argv \in {Argv(k) : k \in 0..MaxArgs}
    /\ intent_file \in IntentFiles
    \* a run that ends at its input checks never looks at the store: those runs
    \* start with the missing or the empty store only
    /\ IsFile(plans_file, IF InputsGood(sys_argv, intent_file) THEN n ELSE 0, RunLines)
    /\ ledger_dir = NoValue
    /\ intent_json_file = NoValue
    /\ repo_path = NoValue
    /\ intent_id = NoValue
    /\ best_plan = NoValue
    /\ proc = NoProc
    /\ invoked = <<>>
    /\ result = NoResult
    /\ returned = NoText
    /\ printed = <<>>
    /\ reads = <<>>
    /\ history = <<>>
    /\ ledger_made \in IF plans_file.exists THEN {TRUE} ELSE BOOLEAN
    /\ error = NoValue
    /\ exit_code = -1
    /\ read_result = NoValue

Init == InitWith(MaxPlans)

----------------------------------------------------------------------------
(* main *)

\* mutant: the process always ends with status 0
ExitZero(code, exc) ==
    /\ pc' = "exited"
    /\ exit_code' = 0
    /\ error' = exc

\* the process ends: sys.exit(code), an uncaught exception (status 1), or main returns
Exit(code, exc) ==
    /\ pc' = "exited"
    /\ exit_code' = code
    /\ error' = exc

\* mutant: only too few arguments are refused
WrongArityTooFew(argv) == Len(argv) < 4

\* line 49: len(sys.argv) != 4
WrongArity(argv) == Len(argv) # 4

\* lines 49-55: the arity check and the three positional arguments
CheckArgs ==
    /\ pc = "main"
    /\ IF WrongArity(sys_argv)
       THEN /\ printed' = Append(printed, Message("usage", <<>>))
            /\ Exit(1, "SystemExit")
            /\ UNCHANGED <<ledger_dir, intent_json_file, repo_path>>
       ELSE /\ ledger_dir' = sys_argv[2]
            /\ intent_json_file' = sys_argv[3]
            /\ repo_path' = sys_argv[4]
            /\ pc' = "read_intent"
            /\ UNCHANGED <<printed, exit_code, error>>
    /\ UNCHANGED <<read_result, sys_argv, intent_file, plans_file, intent_id, best_plan, proc,
                   invoked, result, returned, reads, history, ledger_made>>

\* mutant: a missing intent_id reads as no value, as intent_data.get would
read_intent_id_get(intent_data) ==
    IF Has(intent_data, "intent_id") THEN Ok(intent_data["intent_id"])
    ELSE Ok(NoValue)

\* line 63: intent_data['intent_id']
read_intent_id(intent_data) ==
    IF Has(intent_data, "intent_id") THEN Ok(intent_data["intent_id"])
    ELSE Raise("KeyError")

\* lines 57-69: the ledger directory is made and the intent id read from the
\* intent file
ReadIntent ==
    /\ pc = "read_intent"
    /\ ledger_made' = TRUE
    /\ IF ~intent_file.exists
       THEN /\ Exit(1, "FileNotFoundError")
            /\ UNCHANGED <<reads, intent_id, printed>>
       ELSE LET id == read_intent_id(intent_file.data)
            IN /\ reads' = Append(reads, intent_json_file)
               /\ IF ~id.ok
                  THEN /\ Exit(1, id.error)
                       /\ UNCHANGED <<intent_id, printed>>
                  ELSE /\ intent_id' = id.value
                       /\ printed' = Append(printed,
                              Message("banner", <<id.value, ledger_dir, repo_path>>))
                       /\ pc' = "step1"
                       /\ UNCHANGED <<exit_code, error>>
    /\ UNCHANGED <<read_result, sys_argv, intent_file, plans_file, ledger_dir, intent_json_file,
                   repo_path, best_plan, proc, invoked, result, returned, history>>

----------------------------------------------------------------------------
(* run_entrypoint *)

\* lines 17-19: the command line is built and printed and the subprocess started
run_entrypoint(script_name, args, waitpc) ==
    LET cmd == <<"bash", script_name>> \o args
    IN /\ printed' = Append(printed, Message("Running", cmd))
       /\ invoked' = Append(invoked, cmd)
       /\ history' = Append(history, Invoked(script_name))
       /\ proc' = [script |-> script_name, args |-> args]
       /\ pc' = waitpc
       /\ UNCHANGED <<read_result, sys_argv, intent_file, plans_file, ledger_dir, intent_json_file,
                      repo_path, intent_id, best_plan, result, returned, reads,
                      ledger_made, error, exit_code>>

\* mutant: main goes from the creation stage straight to selection
AfterStageSkipsPlanning(at) ==
    CASE at = "step1_wait" -> "step3"
      [] at = "step2_wait" -> "step3"
      [] at = "step4_wait" -> "complete"

\* mutant: run_entrypoint never returns from the execution stage
AfterStageExecutorHangs(at) ==
    CASE at = "step1_wait" -> "step2"
      [] at = "step2_wait" -> "step3"
      [] at = "step4_wait" -> "step4_returning"

\* where main goes on when run_entrypoint returns
AfterStage(at) ==
    CASE at = "step1_wait" -> "step2"
      [] at = "step2_wait" -> "step3"
      [] at = "step4_wait" -> "complete"

\* mutant: no exit status counts as a failure
StageFailedNever(returncode) == FALSE

\* mutant: only status 1 counts as a failure
StageFailedOnlyOne(returncode) == returncode = 1

\* line 20: result.returncode != 0
StageFailed(returncode) == returncode # 0

\* mutant: the failure report carries the captured standard output
ErrorReportStdout(script_name, res) ==
    Message("Error running", <<script_name, res.stdout>>)

\* line 21: the failure report names the script and carries its standard error
ErrorReport(script_name, res) ==
    Message("Error running", <<script_name, res.stderr>>)

\* lines 19-24: the subprocess exits; a non-zero status ends the run with status 1,
\* a zero status returns the captured standard output to main
StageExits ==
    /\ pc \in {"step1_wait", "step2_wait", "step4_wait"}
    /\ \E rc \in ReturnCodes :
        LET done == [args |-> <<"bash", proc.script>> \o proc.args, returncode |-> rc,
                     stdout |-> StdoutOf(proc.script), stderr |-> StderrOf(proc.script)]
        IN /\ result' = done
           /\ history' = Append(history, Exited(proc.script, rc))
           /\ IF StageFailed(done.returncode)
              THEN /\ printed' = Append(printed, ErrorReport(proc.script, done))
                   /\ Exit(1, "SystemExit")
                   /\ UNCHANGED returned
              ELSE /\ printed' = Append(printed, Message("stdout", <<done.stdout>>))
                   /\ returned' = done.stdout
                   /\ pc' = AfterStage(pc)
                   /\ UNCHANGED <<exit_code, error>>
    /\ proc' = NoProc
    /\ UNCHANGED <<read_result, sys_argv, intent_file, plans_file, ledger_dir, intent_json_file,
                   repo_path, intent_id, best_plan, invoked, reads, ledger_made>>

\* a running stage appends a line to the plans store, creating the store if
\* missing, while the store has fewer than n lines
StageAppendsWithin(n) ==
    /\ proc # NoProc
    /\ Len(plans_file.lines) < n
    /\ \E l \in RunLines :
        plans_file' = [exists |-> TRUE,
                       lines |-> Append(plans_file.lines,
                                        Stamp(l, Len(plans_file.lines) + 1))]
    /\ UNCHANGED <<pc, read_result, sys_argv, intent_file, ledger_dir, intent_json_file, repo_path,
                   intent_id, best_plan, proc, invoked, result, returned, printed,
                   reads, history, ledger_made, error, exit_code>>

StageAppends == StageAppendsWithin(MaxPlans)

----------------------------------------------------------------------------
(* main, the four steps *)

\* lines 71-74
Step1_CreateIntent ==
    /\ pc = "step1"
    /\ run_entrypoint("intent_creator.sh", <<ledger_dir, intent_json_file>>, "step1_wait")

\* lines 76-79
Step2_GeneratePlans ==
    /\ pc = "step2"
    /\ run_entrypoint("planner.sh", <<ledger_dir, intent_id, "bootstrap-planner">>,
                      "step2_wait")

\* mutant: the store is opened for appending, which creates a missing file
OpenForAppend(file) == [exists |-> TRUE, lines |-> file.lines]

\* line 31: open(filepath, 'r') leaves the file as it is
OpenForRead(file) == file

\* lines 81-86: the plans store is read and the best plan selected
Step3_SelectBestPlan ==
    /\ pc = "step3"
    /\ LET sel == select_best_plan(plans_file, intent_id)
       IN /\ reads' = IF plans_file.exists THEN Append(reads, "plans.jsonl") ELSE reads
          /\ history' = Append(history, Selected(sel))
          /\ IF sel.ok
             THEN /\ best_plan' = sel.value
                  /\ printed' = Append(printed, Message("Selected Plan", <<sel.value>>))
                  /\ pc' = "step4"
                  /\ UNCHANGED <<exit_code, error>>
             ELSE /\ Exit(1, sel.error)
                  /\ UNCHANGED <<best_plan, printed>>
    /\ plans_file' = OpenForRead(plans_file)
    /\ UNCHANGED <<read_result, sys_argv, intent_file, ledger_dir, intent_json_file,
                   repo_path, intent_id, proc, invoked, result, returned, ledger_made>>

\* mutant: the plan id and the intent id change places
ExecutorArgsSwapped(ledger, intent, plan, repo) == <<ledger, plan, intent, repo>>

\* line 90: the arguments of the execution stage
ExecutorArgs(ledger, intent, plan, repo) == <<ledger, intent, plan, repo>>

\* lines 88-91
Step4_ExecutePlan ==
    /\ pc = "step4"
    /\ run_entrypoint("executor.sh",
                      ExecutorArgs(ledger_dir, intent_id, best_plan, repo_path),
                      "step4_wait")

\* lines 93-94: main returns and the process exits with status 0
Complete ==
    /\ pc = "complete"
    /\ printed' = Append(printed, Message("Complete", <<intent_id>>))
    /\ Exit(0, NoValue)
    /\ UNCHANGED <<read_result, sys_argv, intent_file, plans_file, ledger_dir, intent_json_file,
                   repo_path, intent_id, best_plan, proc, invoked, result, returned,
                   reads, history, ledger_made>>

Next ==
    \/ CheckArgs
    \/ ReadIntent
    \/ Step1_CreateIntent
    \/ StageExits
    \/ StageAppends
    \/ Step2_GeneratePlans
    \/ Step3_SelectBestPlan
    \/ Step4_ExecutePlan
    \/ Complete

Spec == Init /\ [][Next]_vars

\* the steps of main itself; Python runs them one after the other without waiting
\* for anything
MainSteps ==
    \/ CheckArgs
    \/ ReadIntent
    \/ Step1_CreateIntent
    \/ Step2_GeneratePlans
    \/ Step3_SelectBestPlan
    \/ Step4_ExecutePlan
    \/ Complete

\* the runs whose stages write nothing to the plans store: the store selection
\* reads is the store the run started beside
NextIdleStages ==
    \/ MainSteps
    \/ StageExits

SpecIdleStages == Init /\ [][NextIdleStages]_vars

StageAppendsFair == StageAppendsWithin(MaxFairPlans)

NextFair ==
    \/ MainSteps
    \/ StageExits
    \/ StageAppendsFair

\* the runs, beside stores of at most MaxFairPlans lines, in which main keeps
\* running and every stage subprocess terminates (subprocess.run at line 19 waits
\* for the exit of the stage without a timeout)
FairSpec ==
    InitWith(MaxFairPlans) /\ [][NextFair]_vars /\ WF_vars(MainSteps) /\ WF_vars(StageExits)

\* the lifecycle state of the run, read off the position of main
State ==
    CASE pc \in {"main", "read_intent", "step1", "step1_wait"} -> "Pending"
      [] pc \in {"step2", "step2_wait"} -> "Created"
      [] pc = "step3" -> "Planned"
      [] pc \in {"step4", "step4_wait"} -> "Selected"
      [] pc = "complete" -> "Executed"
      [] pc = "exited" -> IF exit_code = 0 THEN "Executed" ELSE "Failed"
      [] OTHER -> "None"

----------------------------------------------------------------------------
(* The selector on its own: select_best_plan applied to every store of at   *)
(* most MaxLen well-formed plan records and every target intent             *)

InitSelect ==
    /\ pc = "select_call"
    /\ sys_argv = Argv(3)
    /\ intent_id \in Intents
    /\ intent_file = [exists |-> TRUE, data |-> [intent_id |-> intent_id]]
    /\ IsFile(plans_file, MaxLen, SelectLines)
    /\ ledger_dir = NoValue
    /\ intent_json_file = NoValue
    /\ repo_path = NoValue
    /\ best_plan = NoValue
    /\ proc = NoProc
    /\ invoked = <<>>
    /\ result = NoResult
    /\ returned = NoText
    /\ printed = <<>>
    /\ reads = <<>>
    /\ history = <<>>
    /\ ledger_made = TRUE
    /\ error = NoValue
    /\ exit_code = -1
    /\ read_result = NoValue

\* best_plan = select_best_plan(plans_file, intent_id), or the exception it raises
CallSelectBestPlan ==
    /\ pc = "select_call"
    /\ LET sel == select_best_plan(plans_file, intent_id)
       IN /\ best_plan' = IF sel.ok THEN sel.value ELSE NoValue
          /\ error' = sel.error
    /\ pc' = "select_return"
    /\ UNCHANGED <<read_result, sys_argv, intent_file, plans_file, ledger_dir, intent_json_file,
                   repo_path, intent_id, proc, invoked, result, returned, printed,
                   reads, history, ledger_made, exit_code>>

NextSelect == CallSelectBestPlan

SpecSelect == InitSelect /\ [][NextSelect]_vars

----------------------------------------------------------------------------
(* The reader on its own: read_jsonl_file applied to the missing store and  *)
(* to every store of at most MaxLen lines that are well-formed records,     *)
(* empty lines or lines of white space                                      *)

InitRead ==
    /\ pc = "read_call"
    /\ sys_argv = Argv(3)
    /\ intent_id = NoValue
    /\ intent_file = [exists |-> FALSE, data |-> EmptyDict]
    /\ IsFile(plans_file, MaxLen, ReadLines)
    /\ ledger_dir = NoValue
    /\ intent_json_file = NoValue
    /\ repo_path = NoValue
    /\ best_plan = NoValue
    /\ proc = NoProc
    /\ invoked = <<>>
    /\ result = NoResult
    /\ returned = NoText
    /\ printed = <<>>
    /\ reads = <<>>
    /\ history = <<>>
    /\ ledger_made = TRUE
    /\ error = NoValue
    /\ exit_code = -1
    /\ read_result = NoValue

\* read_result = read_jsonl_file(plans_file), or the exception it raises
CallReadJsonlFile ==
    /\ pc = "read_call"
    /\ read_result' = read_jsonl_file(plans_file)
    /\ reads' = IF plans_file.exists THEN Append(reads, "plans.jsonl") ELSE reads
    /\ plans_file' = OpenForRead(plans_file)
    /\ pc' = "read_return"
    /\ UNCHANGED <<sys_argv, intent_file, ledger_dir, intent_json_file, repo_path,
                   intent_id, best_plan, proc, invoked, result, returned, printed,
                   history, ledger_made, error, exit_code>>

NextRead == CallReadJsonlFile

SpecRead == InitRead /\ [][NextRead]_vars

----------------------------------------------------------------------------
(* Words of the properties, read off the store itself *)

\* the lines of the store that are records of the intent target
CandidateLines(file, target) ==
    {i \in 1..Len(file.lines) :
        /\ file.lines[i].kind = "record"
        /\ Has(file.lines[i].value, "intent_id")
        /\ file.lines[i].value["intent_id"] = target}

\* p_success - entropy of the record of line i
LineScore(file, i) == file.lines[i].value["p_success"] - file.lines[i].value["entropy"]

\* line i carries the plan id
HasPlanId(file, i, id) ==
    /\ file.lines[i].kind = "record"
    /\ Has(file.lines[i].value, "plan_id")
    /\ file.lines[i].value["plan_id"] = id

SelectReturned == pc = "select_return" /\ error = NoValue

----------------------------------------------------------------------------
(* C3 *)

\* C3: when at least one record of the store has the target intent id,
\* select_best_plan returns, and the plan_id it returns is the plan_id of a record
\* of the store whose intent_id is the target.
C3_ReturnsPlanOfTarget ==
    (pc = "select_return" /\ CandidateLines(plans_file, intent_id) # {})
        => /\ SelectReturned
           /\ \E i \in CandidateLines(plans_file, intent_id) :
                  HasPlanId(plans_file, i, best_plan)

\* a plan of the target is returned from a store that also holds another intent's plan
C3_Witness ==
    /\ SelectReturned
    /\ \E i \in CandidateLines(plans_file, intent_id) : HasPlanId(plans_file, i, best_plan)
    /\ \E j \in 1..Len(plans_file.lines) : j \notin CandidateLines(plans_file, intent_id)

----------------------------------------------------------------------------
(* C4 *)

\* the ledger of the end-to-end scenario: p1 (0.9, 0.3) and p2 (0.8, 0.1) of i1
ScenarioLedger ==
    <<RecordLine([intent_id |-> "i1", plan_id |-> "p1", p_success |-> 9, entropy |-> 3]),
      RecordLine([intent_id |-> "i1", plan_id |-> "p2", p_success |-> 8, entropy |-> 1])>>

\* C4: the plan select_best_plan returns has the greatest p_success - entropy among
\* the target's candidates; for the scenario ledger and intent i1 it returns p2.
C4_ReturnsMaxScore ==
    /\ SelectReturned =>
          \E i \in CandidateLines(plans_file, intent_id) :
              /\ HasPlanId(plans_file, i, best_plan)
              /\ \A c \in CandidateLines(plans_file, intent_id) :
                     LineScore(plans_file, i) >= LineScore(plans_file, c)
    /\ (pc = "select_return" /\ plans_file.lines = ScenarioLedger /\ intent_id = "i1")
          => best_plan = "p2"

\* the scenario: p2 is returned although p1 is first and has the higher p_success
C4_Witness ==
    /\ SelectReturned
    /\ plans_file.lines = ScenarioLedger
    /\ intent_id = "i1"
    /\ best_plan = "p2"

----------------------------------------------------------------------------
(* C5 *)

----------------------------------------------------------------------------
(* C6 *)

RECURSIVE LinesOfIntent(_, _)
\* the lines that are records of the intent target, in their order
LinesOfIntent(lines, target) ==
    IF lines = <<>> THEN <<>>
    ELSE IF /\ Head(lines).kind = "record"
            /\ Has(Head(lines).value, "intent_id")
            /\ Head(lines).value["intent_id"] = target
         THEN <<Head(lines)>> \o LinesOfIntent(Tail(lines), target)
         ELSE LinesOfIntent(Tail(lines), target)

\* the store with the plans of every intent but target removed
OnlyIntent(file, target) == [file EXCEPT !.lines = LinesOfIntent(file.lines, target)]

\* C6: selecting for an intent over a store returns what selecting over that
\* intent's plans alone returns (the same plan_id, or the same error), so the
\* well-formed plans of other intents never change the result.
C6_OtherIntentsIgnored ==
    pc = "select_return" =>
        LET alone == select_best_plan(OnlyIntent(plans_file, intent_id), intent_id)
        IN /\ (error = NoValue) = alone.ok
           /\ alone.ok => best_plan = alone.value
           /\ ~alone.ok => error = alone.error

\* a plan is returned from a store where another intent's plan, with a strictly
\* greater score, stands between two plans of the target
C6_Witness ==
    /\ SelectReturned
    /\ \E i, k \in CandidateLines(plans_file, intent_id) :
       \E j \in 1..Len(plans_file.lines) :
          /\ i < j /\ j < k
          /\ j \notin CandidateLines(plans_file, intent_id)
          /\ \A c \in CandidateLines(plans_file, intent_id) :
                 LineScore(plans_file, j) > LineScore(plans_file, c)

----------------------------------------------------------------------------
(* Words of the properties of a run *)

Creator == "intent_creator.sh"
Planner == "planner.sh"
Executor == "executor.sh"

Last(h) == h[Len(h)]

\* the selection was the last thing the run did: the store is as selection read it
JustSelected == history # <<>> /\ Last(history).event = "select"

\* the script of a command line handed to subprocess.run
ScriptOf(cmd) == cmd[2]
ExecutorInvoked == \E i \in 1..Len(invoked) : ScriptOf(invoked[i]) = Executor

\* every line of the store is blank or a JSON object
AllParseable(file) ==
    \A i \in 1..Len(file.lines) : file.lines[i].kind \in {"blank", "record"}

----------------------------------------------------------------------------
(* C1 *)

\* C1: the stages run in the order create, plan, select, execute. The creation
\* stage is the first event of a run; the planning stage is invoked right after the
\* creation stage exited with status 0; selection happens right after the planning
\* stage exited with status 0; the execution stage is invoked right after a
\* selection that returned a plan id; and a stage that was invoked exits before
\* anything else happens, so no two stages are in progress together.
C1_StagesInOrder ==
    /\ \A i \in 1..Len(history) :
          LET e == history[i]
          IN /\ e.event = "invoke" => e.script \in {Creator, Planner, Executor}
             /\ (e.event = "invoke" /\ e.script = Creator) => i = 1
             /\ (e.event = "invoke" /\ e.script = Planner) =>
                    i > 1 /\ history[i - 1] = Exited(Creator, 0)
             /\ e.event = "select" => i > 1 /\ history[i - 1] = Exited(Planner, 0)
             /\ (e.event = "invoke" /\ e.script = Executor) =>
                    /\ i > 1
                    /\ history[i - 1].event = "select"
                    /\ history[i - 1].code = 0
                    /\ history[i - 1].plan # NoValue
             /\ e.event = "exit" => i > 1 /\ history[i - 1] = Invoked(e.script)
             /\ (e.event = "invoke" /\ i < Len(history)) =>
                    history[i + 1].event = "exit" /\ history[i + 1].script = e.script
    /\ (proc # NoProc) <=> (history # <<>> /\ Last(history).event = "invoke")
    /\ proc # NoProc => proc.script = Last(history).script

\* a run that went through all four stages
C1_Witness ==
    /\ pc = "exited"
    /\ exit_code = 0
    /\ Len(history) = 7
    /\ history[7] = Exited(Executor, 0)

----------------------------------------------------------------------------
(* C2 *)

\* C2: a stage that exits with a non-zero status is the last event of the run: the
\* run is Failed, the process has exited with a non-zero status, no stage is in
\* progress, and no stage invocation and no selection follows it.
C2_FailFast ==
    \A i \in 1..Len(history) :
        (history[i].event = "exit" /\ history[i].code # 0) =>
            /\ i = Len(history)
            /\ State = "Failed"
            /\ pc = "exited"
            /\ exit_code # 0
            /\ proc = NoProc
            /\ Len(invoked) = i \div 2

\* the planning stage exited with status 2 and the run stopped there
C2_Witness ==
    /\ Len(history) = 4
    /\ history[4] = Exited(Planner, 2)
    /\ pc = "exited"
    /\ exit_code = 1

----------------------------------------------------------------------------
(* C7 *)

\* C7: when the store selection reads holds no record of the run's intent (it is
\* missing, empty, or holds other plans only), selection fails, the run is Failed,
\* the process exits non-zero and the execution stage is not invoked, although the
\* creation and planning stages exited with status 0; the error is the
\* no-candidates error (ValueError) when every line of the store is parseable.
C7_NoCandidatesFails ==
    (JustSelected /\ CandidateLines(plans_file, intent_id) = {}) =>
        /\ Last(history).code # 0
        /\ State = "Failed"
        /\ exit_code # 0
        /\ ~ExecutorInvoked
        /\ proc = NoProc
        /\ AllParseable(plans_file) => error = "ValueError"
        /\ history[2] = Exited(Creator, 0)
        /\ history[4] = Exited(Planner, 0)

\* the store holds a well-formed plan of another intent only, and the run failed
\* with the no-candidates error after two successful stages
C7_Witness ==
    /\ JustSelected
    /\ plans_file.exists
    /\ Len(plans_file.lines) = 1
    /\ plans_file.lines[1].kind = "record"
    /\ DOMAIN plans_file.lines[1].value = Fields
    /\ plans_file.lines[1].value["intent_id"] # intent_id
    /\ error = "ValueError"
    /\ exit_code = 1
    /\ history[2] = Exited(Creator, 0)
    /\ history[4] = Exited(Planner, 0)

----------------------------------------------------------------------------
(* C8 *)

\* a record of the store lacks one of the four fields
MalformedRecord(file) ==
    \E i \in 1..Len(file.lines) :
        file.lines[i].kind = "record" /\ DOMAIN file.lines[i].value # Fields

\* C8: when a record of the store selection reads lacks intent_id, plan_id,
\* p_success or entropy, selection fails and the run ends Failed without the
\* execution stage being invoked (whatever error it fails with).
C8_MalformedRecordFails ==
    (JustSelected /\ MalformedRecord(plans_file)) =>
        /\ Last(history).code # 0
        /\ State = "Failed"
        /\ ~ExecutorInvoked

----------------------------------------------------------------------------
(* C9 *)

\* C9: a run whose intent file holds no intent_id invokes no stage, performs no
\* selection and does not read the store; once past reading the intent file the
\* process has exited with a non-zero status.
C9_MissingIntentIdFails ==
    (intent_file.exists /\ ~Has(intent_file.data, "intent_id")) =>
        /\ invoked = <<>>
        /\ history = <<>>
        /\ proc = NoProc
        /\ \A i \in 1..Len(reads) : reads[i] # "plans.jsonl"
        /\ \/ pc \in {"main", "read_intent"}
           \/ pc = "exited" /\ exit_code # 0

\* three arguments, an intent file without intent_id: the run ended at line 63
C9_Witness ==
    /\ Len(sys_argv) = 4
    /\ intent_file.exists
    /\ ~Has(intent_file.data, "intent_id")
    /\ pc = "exited"
    /\ error = "KeyError"
    /\ exit_code = 1
    /\ reads = <<intent_json_file>>

----------------------------------------------------------------------------
(* C10 *)

\* C10: a run started with a number of positional arguments other than three
\* invokes no stage and reads neither the intent file nor the store; once past the
\* arity check it has printed the usage message and nothing else and has exited
\* with a non-zero status.
C10_UsageError ==
    Len(sys_argv) - 1 # 3 =>
        /\ invoked = <<>>
        /\ history = <<>>
        /\ proc = NoProc
        /\ reads = <<>>
        /\ \/ pc = "main" /\ printed = <<>>
           \/ /\ pc = "exited"
              /\ exit_code # 0
              /\ printed = <<Message("usage", <<>>)>>

\* four positional arguments: the usage message and exit status 1
C10_Witness ==
    /\ Len(sys_argv) - 1 = 4
    /\ pc = "exited"
    /\ exit_code = 1
    /\ printed = <<Message("usage", <<>>)>>
    /\ intent_file.exists

----------------------------------------------------------------------------
(* C11 *)

\* line i of the store is a well-formed plan record of the intent
GoodPlanOf(file, i, target) ==
    /\ i \in CandidateLines(file, target)
    /\ DOMAIN file.lines[i].value = Fields

\* C11: when a non-blank line of the store selection reads is no JSON, reading the
\* store raises (JSONDecodeError) and the line is not skipped: selection fails,
\* the run is Failed, the process exits non-zero and the execution stage is not
\* invoked, wherever the line stands and whatever else the store holds. A line
\* that is JSON but no object is returned by the reader and fails the run as well,
\* in the selector.
C11_UnparseableLineFails ==
    /\ (JustSelected /\ \E i \in 1..Len(plans_file.lines) :
                            plans_file.lines[i].kind = "invalid") =>
          /\ ~read_jsonl_file(plans_file).ok
          /\ error = "JSONDecodeError"
          /\ Last(history).code # 0
          /\ State = "Failed"
          /\ exit_code # 0
          /\ ~ExecutorInvoked
    /\ (JustSelected /\ \E i \in 1..Len(plans_file.lines) :
                            plans_file.lines[i].kind = "nonobject") =>
          /\ error \in {"JSONDecodeError", "AttributeError"}
          /\ State = "Failed"
          /\ exit_code # 0
          /\ ~ExecutorInvoked

\* a well-formed plan of the run's intent is followed by a line that is no JSON,
\* and the run failed in the reader
C11_Witness ==
    /\ JustSelected
    /\ Len(plans_file.lines) = 2
    /\ GoodPlanOf(plans_file, 1, intent_id)
    /\ plans_file.lines[2].kind = "invalid"
    /\ error = "JSONDecodeError"
    /\ exit_code = 1

----------------------------------------------------------------------------
(* C12 *)

\* the events of the run hold the exit of the stage with status 0
ExitedZero(script) == \E i \in 1..Len(history) : history[i] = Exited(script, 0)

\* the selection of the run returned a plan id
SelectionReturned ==
    \E i \in 1..Len(history) :
        /\ history[i].event = "select"
        /\ history[i].code = 0
        /\ history[i].plan # NoValue

\* the run reached Executed: creation, planning and execution exited with status 0
\* and selection returned a plan id
RanToExecuted ==
    /\ ExitedZero(Creator)
    /\ ExitedZero(Planner)
    /\ SelectionReturned
    /\ ExitedZero(Executor)

\* why a run failed, read off its inputs and its events
UsageFailure == WrongArity(sys_argv)
InputFailure == ~WrongArity(sys_argv) /\ history = <<>> /\ ~read_intent_id(intent_file).ok
StageFailure ==
    history # <<>> /\ Last(history).event = "exit" /\ Last(history).code # 0
SelectionFailure ==
    history # <<>> /\ Last(history).event = "select" /\ Last(history).code # 0

\* C12: the process exits with status 0 exactly when the run reached Executed;
\* a process that exited non-zero failed at the usage check, at reading the intent,
\* at a stage or at selection, and each of these failures ends the process with a
\* non-zero status.
C12_ExitZeroIffExecuted ==
    /\ pc = "exited" =>
          /\ exit_code = 0 <=> RanToExecuted
          /\ exit_code # 0 <=>
                (UsageFailure \/ InputFailure \/ StageFailure \/ SelectionFailure)
    /\ (StageFailure \/ SelectionFailure) => (pc = "exited" /\ exit_code # 0)
    /\ RanToExecuted => (pc \in {"complete", "exited"} /\ exit_code \in {-1, 0})

\* a run that exited with status 0 after the execution stage ran the selected plan
C12_Witness ==
    /\ pc = "exited"
    /\ exit_code = 0
    /\ RanToExecuted
    /\ \E i \in 1..Len(PlanIdPool) : best_plan = PlanIdPool[i]
    /\ Last(invoked)[5] = best_plan

----------------------------------------------------------------------------
(* C13 *)

\* how often the file was opened for reading
TimesRead(name) == Cardinality({i \in 1..Len(reads) : reads[i] = name})

\* C13: the intent id is read from the intent file once, before any stage, and the
\* one value is the planner's argument, the target of selection and the executor's
\* argument; the plan id the executor gets is the one selection returned; the
\* stages get (ledger_dir, intent_json_file), (ledger_dir, intent_id,
\* "bootstrap-planner") and (ledger_dir, intent_id, plan_id, repo_path), the
\* directory, file and repository being the three command-line arguments.
C13_DataThreaded ==
    /\ history = <<>> => invoked = <<>>
    /\ history # <<>> =>
          LET id == intent_file.data["intent_id"]
          IN /\ intent_id = id
             /\ reads[1] = sys_argv[3]
             /\ TimesRead(sys_argv[3]) = 1
             /\ invoked[1] = <<"bash", Creator, sys_argv[2], sys_argv[3]>>
             /\ Len(invoked) >= 2 =>
                    invoked[2] = <<"bash", Planner, sys_argv[2], id, "bootstrap-planner">>
             /\ JustSelected => Last(history) = Selected(select_best_plan(plans_file, id))
             /\ Len(invoked) >= 3 =>
                    /\ history[5].event = "select"
                    /\ invoked[3] =
                          <<"bash", Executor, sys_argv[2], id, history[5].plan, sys_argv[4]>>
             /\ Len(invoked) <= 3

\* the execution stage was started for intent i2 with the second plan of the store
C13_Witness ==
    /\ Len(invoked) = 3
    /\ intent_file.data["intent_id"] = "i2"
    /\ invoked[2] = <<"bash", Planner, "ledger", "i2", "bootstrap-planner">>
    /\ invoked[3] = <<"bash", Executor, "ledger", "i2", "p2", "repo">>
    /\ history[5].plan = "p2"

----------------------------------------------------------------------------
(* C14 *)

\* C14: the orchestrator never writes the plans store: whenever the store changes,
\* a stage subprocess is running and main is waiting for it, and the step moves
\* neither main nor anything main reads, prints or records; reading the store and
\* selecting from it leave it as it was.
C14_StoreWrittenByStagesOnly ==
    [][plans_file' # plans_file =>
          /\ proc # NoProc
          /\ pc \in {"step1_wait", "step2_wait", "step4_wait"}
          /\ UNCHANGED <<pc, proc, reads, history, printed, invoked, best_plan,
                         exit_code>>]_vars

\* selection has read a store of two lines and returned a plan of it, and the
\* store is there as it was read
C14_Witness ==
    /\ JustSelected
    /\ pc = "step4"
    /\ TimesRead("plans.jsonl") = 1
    /\ Len(plans_file.lines) = 2
    /\ Last(history) = Selected(select_best_plan(plans_file, intent_id))

----------------------------------------------------------------------------
(* C15 *)

\* C15: when the store does not exist as selection reads it, the reader returns
\* the empty sequence and raises nothing, the file is not opened, and the run
\* fails in the selector, which finds no candidate (ValueError); the execution
\* stage is not invoked.
C15_MissingStoreReadsEmpty ==
    (JustSelected /\ ~plans_file.exists) =>
        /\ read_jsonl_file(plans_file) = Ok(<<>>)
        /\ TimesRead("plans.jsonl") = 0
        /\ error = "ValueError"
        /\ Last(history).code # 0
        /\ State = "Failed"
        /\ exit_code = 1
        /\ ~ExecutorInvoked

\* creation and planning exited with status 0, no stage made the store, even the
\* ledger directory was made by main only, and selection failed on the missing store
C15_Witness ==
    /\ JustSelected
    /\ ~plans_file.exists
    /\ history[2] = Exited(Creator, 0)
    /\ history[4] = Exited(Planner, 0)
    /\ error = "ValueError"
    /\ pc = "exited"

----------------------------------------------------------------------------
(* C16 *)

\* the lines of the store that are neither empty nor white space only
RecordLinesOf(file) ==
    {i \in 1..Len(file.lines) : file.lines[i].kind \notin {"blank", "whitespace"}}

\* how many of the lines of idx stand at or before line i
RankIn(idx, i) == Cardinality({j \in idx : j <= i})

\* C16: for a store whose lines are parseable records, empty lines and lines of
\* white space, read_jsonl_file raises nothing and returns exactly the records of
\* the non-blank lines, each once, in file order: the k-th non-blank line of the
\* file is the k-th record returned.
C16_ReaderSkipsBlankLines ==
    (pc = "read_return" /\ plans_file.exists) =>
        /\ read_result.ok
        /\ Len(read_result.value) = Cardinality(RecordLinesOf(plans_file))
        /\ \A i \in RecordLinesOf(plans_file) :
               read_result.value[RankIn(RecordLinesOf(plans_file), i)]
                   = plans_file.lines[i].value

\* two different records with a line of white space between them: both are
\* returned, in their order
C16_Witness ==
    /\ pc = "read_return"
    /\ Len(plans_file.lines) = 3
    /\ plans_file.lines[1].kind = "record"
    /\ plans_file.lines[2].kind = "whitespace"
    /\ plans_file.lines[3].kind = "record"
    /\ read_result.ok
    /\ read_result.value = <<plans_file.lines[1].value, plans_file.lines[3].value>>
    /\ plans_file.lines[1].value["intent_id"] # plans_file.lines[3].value["intent_id"]

----------------------------------------------------------------------------
(* C17 *)

\* C17: provided main keeps running and every stage terminates, every run ends
\* Executed or Failed; a run that has ended stays as it ended; and Failed is one
\* step away from each of Pending (a wrong command line, an unreadable intent, the
\* creation stage failing), Created (the planning stage failing), Planned
\* (selection failing) and Selected (the execution stage failing).
C17_RunTerminates ==
    /\ <>(pc = "exited" /\ State \in {"Executed", "Failed"})
    /\ [][pc = "exited" => UNCHANGED <<pc, exit_code, error>>]_vars
    /\ [](pc \in {"step1_wait", "step2_wait", "step4_wait"} =>
             ENABLED (StageExits /\ pc' = "exited" /\ exit_code' = 1))
    /\ []((pc = "main" /\ Len(sys_argv) # 4) =>
             ENABLED (CheckArgs /\ pc' = "exited" /\ exit_code' = 1))
    /\ []((pc = "step3" /\ CandidateLines(plans_file, intent_id) = {}) =>
             ENABLED (Step3_SelectBestPlan /\ pc' = "exited" /\ exit_code' = 1))

\* the run went through creation, planning and selection and failed at the
\* execution stage, after the store had grown to its bound
C17_Witness ==
    /\ pc = "exited"
    /\ State = "Failed"
    /\ Len(history) = 7
    /\ Last(history) = Exited(Executor, 2)
    /\ Len(plans_file.lines) = MaxFairPlans

----------------------------------------------------------------------------
(* C18 *)

\* the exit of a stage is the last event of the run so far
JustExited == history # <<>> /\ Last(history).event = "exit"

\* C18: when a stage exits with status 0, run_entrypoint returns the captured
\* standard output of that stage to main, which goes on; when a stage exits with
\* a non-zero status, run_entrypoint returns nothing, the process ends with status
\* 1, and the last thing printed is the failure report with the name of the stage
\* and its captured standard error.
C18_RunnerReturnsStdoutOnZero ==
    JustExited =>
        LET script == Last(history).script
        IN /\ result.args = Last(invoked)
           /\ ScriptOf(result.args) = script
           /\ result.returncode = Last(history).code
           /\ result.stdout = StdoutOf(script)
           /\ result.stderr = StderrOf(script)
           /\ Last(history).code = 0 =>
                  /\ returned = StdoutOf(script)
                  /\ pc \in {"step2", "step3", "complete", "exited"}
                  /\ pc # "exited" =>
                         /\ exit_code = -1
                         /\ Last(printed) = Message("stdout", <<StdoutOf(script)>>)
                  /\ pc = "exited" => (script = Executor /\ exit_code = 0)
           /\ Last(history).code # 0 =>
                  /\ returned # StdoutOf(script)
                  /\ pc = "exited"
                  /\ exit_code = 1
                  /\ error = "SystemExit"
                  /\ Last(printed).kind = "Error running"
                  /\ Last(printed).detail = <<script, StderrOf(script)>>

\* the planning stage exited with status 1: what main holds is still the output
\* of the creation stage, and the report carries the planner's standard error
C18_Witness ==
    /\ JustExited
    /\ Last(history) = Exited(Planner, 1)
    /\ returned = StdoutOf(Creator)
    /\ Last(printed) = Message("Error running", <<Planner, StderrOf(Planner)>>)

----------------------------------------------------------------------------
(* C19 *)

\* every line of the store is blank or a plan record with all four fields
AllWellFormed(file) ==
    \A i \in 1..Len(file.lines) :
        \/ file.lines[i].kind = "blank"
        \/ file.lines[i].kind = "record" /\ DOMAIN file.lines[i].value = Fields

\* the earliest of the candidates of greatest p_success - entropy
BestLine(file, target) ==
    CHOOSE i \in CandidateLines(file, target) :
        \A c \in CandidateLines(file, target) :
            /\ c < i => LineScore(file, c) < LineScore(file, i)
            /\ c > i => LineScore(file, c) <= LineScore(file, i)

====
